---- MODULE Spec2Model ----
(***************************************************************************)
(* Simulation core of the egg-jump game (src/granite.config.ts): the game  *)
(* object `game.current`, the commands initGame / startCharging /          *)
(* releaseJump as the input handlers issue them, and the frame stepper     *)
(* `update(dt)` run by `loop`.                                             *)
(*                                                                         *)
(* Numbers.  The program computes in floating point.  The model computes   *)
(* in fixed point with three decimals: every length, velocity, time-delta, *)
(* power and experience value v is held as the integer 1000*v, and a       *)
(* product a*b is Mul(a, b), a*b/1000 rounded toward zero.  Meters, scores, *)
(* tier indices and platform indices are plain integers as in the program. *)
(***************************************************************************)
EXTENDS Integers, Sequences, FiniteSets, TLC

VARIABLES
    g,        \* game.current, the mutable simulation object
    frame,    \* interval between two animation frames of this display, in 0.01 ms
    rnd,      \* which of the enumerated Math.random() streams this run draws from
    nextId,   \* identity given to the next platform object that is created
    lastTime, \* the timestamp of the previous animation frame, in 0.01 ms
    op,       \* the operation executed last
    ev,       \* what the last operation did (events inside the tick)
    run,      \* history of the run since the last initGame
    budget    \* the bounds of the explored behaviour and what is left of them

vars == <<g, frame, rnd, nextId, lastTime, op, ev, run, budget>>

----------------------------------------------------------------------------
(* Fixed-point helpers *)

\* a*b of two fixed-point values, rounded toward zero
Mul(a, b) ==
    LET p == a * b
    IN  IF p >= 0 THEN p \div 1000 ELSE -((-p) \div 1000)

Max(a, b) == IF a >= b THEN a ELSE b

Min(a, b) == IF a <= b THEN a ELSE b

Abs(a) == IF a < 0 THEN -a ELSE a

\* Math.min(...s) of a non-empty sequence
SeqMin(s) == CHOOSE m \in {s[i] : i \in 1..Len(s)} : \A i \in 1..Len(s) : m <= s[i]

----------------------------------------------------------------------------
(* Tuning constants *)

W == 400 * 1000

H == 650 * 1000

GRAVITY == 280

MAX_JUMP_VEL == 11500

PLATFORM_GAP == 80 * 1000

EGG_R == 18 * 1000

\* STAGES[i].need, tiers 0..6 at positions 1..7
STAGES == <<0, 15, 40, 75, 120, 180, 260>>

\* for (i = STAGES.length - 1; i >= 0; i--) if (jumps >= STAGES[i].need) return i
RECURSIVE StageFrom(_, _)
StageFrom(jumps, i) ==
    IF i < 0 THEN 0
    ELSE IF jumps >= STAGES[i + 1] THEN i
    ELSE StageFrom(jumps, i - 1)

getStage(jumps) == StageFrom(jumps, Len(STAGES) - 1)

\* Math.floor of a fixed-point value, as an integer
Floor(v) == v \div 1000

\* Math.max(0, Math.floor((540 - y) / 12))
HeightM(y) == Max(0, (540 * 1000 - y) \div (12 * 1000))

----------------------------------------------------------------------------
(* Platforms.  A platform object is a record; `id` is the identity of the  *)
(* object (what === compares), the other fields are the object's fields    *)
(* (h, a constant 11 that only the renderer reads, is left out).           *)

\* the null of egg.onPlatform: no platform object
NoPlatform ==
    [id |-> 0, x |-> 0, y |-> 0, w |-> 0, speed |-> 0, type |-> "normal",
     hue |-> 0, timer |-> 0, landed |-> FALSE, removing |-> FALSE]

\* r = the five Math.random() values in the order the function draws them
createPlatform(y, index, r, id) ==
    LET heightM == HeightM(y)
        widthBase == Max(50 * 1000, 130 * 1000 - heightM * 350)
        widthVariance == Max(10 * 1000, 25 * 1000 - heightM * 80)
        w == widthBase + Mul(r[1], widthVariance)
        baseSpeed == 600 + Min(1200, heightM * 8)
        zigzag == IF index % 2 = 0 THEN 600 ELSE 1000
        speed == Mul(Mul(baseSpeed, zigzag), 800 + Mul(r[2], 400))
                    * (IF r[3] > 500 THEN 1 ELSE -1)
        timedChance == Min(180, (heightM - 15) * 3)
        fragileChance == Min(150, (heightM - 15) * 2)
        type == IF heightM >= 15
                THEN IF r[4] < timedChance THEN "timed"
                     ELSE IF r[4] < timedChance + fragileChance THEN "fragile"
                     ELSE "normal"
                ELSE "normal"
    IN  [id |-> id, x |-> 30 * 1000 + Mul(r[5], W - 60 * 1000 - w), y |-> y, w |-> w,
         speed |-> speed,
         hue |-> IF type = "timed" THEN 0
                 ELSE IF type = "fragile" THEN 270 ELSE (index * 37) % 360,
         type |-> type,
         timer |-> IF type = "timed" THEN 300 * 1000 ELSE 0,
         landed |-> FALSE, removing |-> FALSE]

----------------------------------------------------------------------------
(* The random source.  Math.random() returns a value in [0, 1); the model  *)
(* holds it as 0..999.  A run draws from one of a few enumerated streams:  *)
(* Random(stream, k) is the five values drawn by the k-th createPlatform   *)
(* call of the column (the platform created at y = 540 - 80*k).            *)

\* streams the platform generator may draw from
RandomStreams == {1, 2}

Random(stream, k) ==
    LET side == IF k % 2 = 0 THEN 900 ELSE 100
        spot == IF k = 1 THEN 50
                ELSE IF k = 2 THEN 300
                ELSE IF k = 3 THEN 700
                ELSE IF k = 4 THEN 400
                ELSE (k * 170) % 1000
        roll == IF k = 4 THEN (IF stream = 1 THEN 10 ELSE 40) ELSE 999
    IN  <<500, 500, side, roll, spot>>

\* the two values drawn when a bird is created: its height and its speed
BirdRandom(stream) == IF stream = 1 THEN <<616, 0>> ELSE <<300, 999>>

\* the value that stands for every Math.random() of a particle effect
CosmeticDraws == {750}

----------------------------------------------------------------------------
(* Simulation state *)

\* g.landingFx = null
NoFx == [timer |-> 0, text |-> ""]

RECURSIVE InitialColumn(_, _, _, _)
\* for (i = 1; i <= 25; i++) platforms.push(createPlatform(540 - i * PLATFORM_GAP, i))
InitialColumn(platforms, i, stream, id) ==
    IF i > 25 THEN platforms
    ELSE InitialColumn(
            Append(platforms,
                   createPlatform(540 * 1000 - i * PLATFORM_GAP, i, Random(stream, i), id + i)),
            i + 1, stream, id)

\* the game object after initGame(): everything but highScore is reinitialised
Fresh(old, stream, id) ==
    LET seed == [id |-> id, x |-> W \div 2 - 90 * 1000, y |-> 540 * 1000, w |-> 180 * 1000,
                 speed |-> 0, hue |-> 140, type |-> "normal", timer |-> 0,
                 landed |-> FALSE, removing |-> FALSE]
        platforms == InitialColumn(<<seed>>, 1, stream, id)
    IN  [state |-> "idle",
         egg |-> [x |-> W \div 2, y |-> 540 * 1000 - EGG_R, vx |-> 0, vy |-> 0,
                  onPlatform |-> platforms[1]],
         platforms |-> platforms,
         camera |-> [y |-> 0],
         power |-> [value |-> 50 * 1000, dir |-> 1, speed |-> 1600],
         score |-> 0,
         highScore |-> old.highScore,
         xp |-> 0,
         xpDecayTimer |-> 0,
         stageIdx |-> 0,
         prevStageIdx |-> 0,
         particles |-> <<>>,
         birds |-> <<>>,
         birdTimer |-> 0,
         perfectFlash |-> 0,
         landingFx |-> NoFx,
         heightReached |-> 540 * 1000,
         highestPlatformY |-> 540 * 1000]

\* a reset that also forgets the high score
initGame_forgets(old, stream, id) == [Fresh(old, stream, id) EXCEPT !.highScore = 0]

\* lines 131-160
initGame(old, stream, id) == Fresh(old, stream, id)

\* useRef({...}): the game object as constructed, before the mount effect runs initGame
Constructed ==
    [state |-> "idle",
     egg |-> [x |-> W \div 2, y |-> 0, vx |-> 0, vy |-> 0, onPlatform |-> NoPlatform],
     platforms |-> <<>>,
     camera |-> [y |-> 0],
     power |-> [value |-> 50 * 1000, dir |-> 1, speed |-> 1600],
     score |-> 0, highScore |-> 0, xp |-> 0, xpDecayTimer |-> 0, stageIdx |-> 0,
     prevStageIdx |-> 0, particles |-> <<>>, birds |-> <<>>, birdTimer |-> 0,
     perfectFlash |-> 0, landingFx |-> NoFx, heightReached |-> 0,
     highestPlatformY |-> 540 * 1000]

\* n particles pushed with the same life
Burst(n, life) == [i \in 1..n |-> life]

\* the platform object p as the array `platforms` holds it now (p itself when the
\* array no longer holds the object)
Current(platforms, p) ==
    IF \E i \in 1..Len(platforms) : platforms[i].id = p.id
    THEN platforms[CHOOSE i \in 1..Len(platforms) : platforms[i].id = p.id]
    ELSE p

----------------------------------------------------------------------------
(* Commands *)

\* lines 165-167
Charge(s) == [s EXCEPT !.power.value = 0, !.power.dir = 1, !.state = "charging"]

\* startCharging without its guard
startCharging_unguarded(s) == Charge(s)

startCharging(s) == IF s.state # "idle" THEN s ELSE Charge(s)

\* the launch speed computed without the tier bonus
JumpVel_noBonus(value, stageIdx) == Mul(MAX_JUMP_VEL, Max(150, value \div 100))

\* lines 173-175: jumpVel from g.power.value and g.stageIdx
JumpVel(value, stageIdx) ==
    LET power == value \div 100
        stageBonus == 1000 + stageIdx * 120
    IN  Mul(Mul(MAX_JUMP_VEL, Max(150, power)), stageBonus)

\* the launch platform is marked but the column is not filtered
RemoveFragile_kept(platforms, on) ==
    [i \in 1..Len(platforms) |->
        IF platforms[i].id = on.id THEN [platforms[i] EXCEPT !.removing = TRUE]
        ELSE platforms[i]]

\* lines 180-183: g.platforms after the jump off platform `on`
RemoveFragile(platforms, on) ==
    IF on.id # 0 /\ on.type = "fragile"
    THEN LET \* egg.onPlatform.removing = true
             marked == [i \in 1..Len(platforms) |->
                          IF platforms[i].id = on.id
                          THEN [platforms[i] EXCEPT !.removing = TRUE]
                          ELSE platforms[i]]
         IN  \* g.platforms = g.platforms.filter((p) => !p.removing)
             SelectSeq(marked, LAMBDA p : ~p.removing)
    ELSE platforms

\* every release is rewarded as a perfect one
Launch_everyJump(s, c) ==
    LET on == s.egg.onPlatform
        platVx == IF on.id # 0 THEN Mul(on.speed, 350) ELSE 0
        jumped == [s EXCEPT !.platforms = RemoveFragile(s.platforms, on),
                            !.egg.vy = -JumpVel(s.power.value, s.stageIdx),
                            !.egg.vx = platVx,
                            !.egg.onPlatform = NoPlatform,
                            !.state = "jumping"]
    IN  [jumped EXCEPT
            !.perfectFlash = 30 * 1000,
            !.xp = @ + 5 * 1000,
            !.particles = @ \o Burst(24, 35 * 1000 + Mul(c, 20 * 1000))
                            \o Burst(12, 25 * 1000 + Mul(c, 15 * 1000)),
            !.landingFx = [timer |-> 40 * 1000, text |-> "PERFECT! +5 XP"]]

\* lines 173-240; c = the value drawn for the particle effects
Launch(s, c) ==
    LET on == s.egg.onPlatform
        platVx == IF on.id # 0 THEN Mul(on.speed, 350) ELSE 0
        isPerfect == s.power.value >= 99 * 1000
        jumped == [s EXCEPT !.platforms = RemoveFragile(s.platforms, on),
                            !.egg.vy = -JumpVel(s.power.value, s.stageIdx),
                            !.egg.vx = platVx,
                            !.egg.onPlatform = NoPlatform,
                            !.state = "jumping"]
    IN  IF isPerfect
        THEN [jumped EXCEPT
                !.perfectFlash = 30 * 1000,
                !.xp = @ + 5 * 1000,
                !.particles = @ \o Burst(24, 35 * 1000 + Mul(c, 20 * 1000))
                                \o Burst(12, 25 * 1000 + Mul(c, 15 * 1000)),
                !.landingFx = [timer |-> 40 * 1000, text |-> "PERFECT! +5 XP"]]
        ELSE [jumped EXCEPT
                !.particles = @ \o Burst(6, 25 * 1000 + Mul(c, 15 * 1000))]

\* releaseJump without its guard
releaseJump_unguarded(s, c) == Launch(s, c)

releaseJump(s, c) == IF s.state # "charging" THEN s ELSE Launch(s, c)

----------------------------------------------------------------------------
(* The frame stepper update(dt), one operator per block of the function,   *)
(* in the order the function runs them.  A step takes and returns the      *)
(* working state s: the fields of g, the local `platforms` (the array that *)
(* g.platforms named when update was entered; the objects in it are shared *)
(* with g.platforms and egg.onPlatform) and the events `ev` of this tick.  *)

\* from: the game state the operation started in; counted / expired: the platform whose
\* timer the tick decremented / that expired; landed: the platform landed on; launched:
\* the platform releaseJump jumped off; generated: <<y, index>> of each platform created
NoEvents ==
    [from |-> "", dt |-> 0, expired |-> 0, hit |-> FALSE, scrolledOff |-> FALSE,
     landed |-> 0, gainedXp |-> FALSE, over |-> FALSE, spawned |-> FALSE,
     generated |-> <<>>, counted |-> 0, launched |-> NoPlatform]

\* the meter turns round at 0 and at 100 without being set to the bound
StepPower_unclamped(s, dt) ==
    IF s.state # "charging" THEN s
    ELSE
    LET v1 == s.power.value + s.power.dir * Mul(s.power.speed, dt)
        p1 == IF v1 >= 100 * 1000
              THEN [s.power EXCEPT !.value = v1, !.dir = -1]
              ELSE [s.power EXCEPT !.value = v1]
        p2 == IF p1.value <= 0 THEN [p1 EXCEPT !.dir = 1] ELSE p1
    IN  [s EXCEPT !.power = p2]

\* lines 271-276
StepPower(s, dt) ==
    IF s.state # "charging" THEN s
    ELSE
    LET v1 == s.power.value + s.power.dir * Mul(s.power.speed, dt)
        p1 == IF v1 >= 100 * 1000
              THEN [s.power EXCEPT !.value = 100 * 1000, !.dir = -1]
              ELSE [s.power EXCEPT !.value = v1]
        p2 == IF p1.value <= 0 THEN [p1 EXCEPT !.value = 0, !.dir = 1] ELSE p1
    IN  [s EXCEPT !.power = p2]

\* only the left margin stops a platform
MovePlatform_leftOnly(p, dt) ==
    IF p.speed = 0 THEN p
    ELSE
    LET q1 == [p EXCEPT !.x = @ + Mul(p.speed, dt)]
    IN  IF q1.x <= 8 * 1000
        THEN [q1 EXCEPT !.x = 8 * 1000, !.speed = Abs(q1.speed)] ELSE q1

\* lines 280-283, one platform
MovePlatform(p, dt) ==
    IF p.speed = 0 THEN p
    ELSE
    LET q1 == [p EXCEPT !.x = @ + Mul(p.speed, dt)]
        q2 == IF q1.x <= 8 * 1000
              THEN [q1 EXCEPT !.x = 8 * 1000, !.speed = Abs(q1.speed)] ELSE q1
        q3 == IF q2.x + q2.w >= W - 8 * 1000
              THEN [q2 EXCEPT !.x = W - 8 * 1000 - q2.w, !.speed = -Abs(q2.speed)] ELSE q2
    IN  q3

\* lines 279-284
StepPlatforms(s, dt) ==
    LET moved == [i \in 1..Len(s.platforms) |-> MovePlatform(s.platforms[i], dt)]
    IN  [s EXCEPT !.platforms = moved,
                  !.egg.onPlatform = Current(moved, @)]

\* the state becomes jumping but the egg keeps its platform
Expire_attached(s) == [s EXCEPT !.egg.vy = 0, !.state = "jumping"]

\* the egg is detached but the game state is left as it is
Expire_noFall(s) == [s EXCEPT !.egg.onPlatform = NoPlatform, !.egg.vy = 0]

\* lines 294-298: the egg on the expired platform falls
Expire(s) ==
    [s EXCEPT !.egg.onPlatform = NoPlatform, !.egg.vy = 0, !.state = "jumping"]

\* the countdown of every landed timed platform, wherever the egg is
CountDown_anywhere(p, on, dt) ==
    IF p.type = "timed" /\ p.landed
    THEN LET t == p.timer - dt
         IN  IF t <= 0 /\ ~p.removing
             THEN [p EXCEPT !.timer = 0, !.removing = TRUE]
             ELSE [p EXCEPT !.timer = t]
    ELSE p

\* lines 288-300, one platform; on = egg.onPlatform when the loop reaches p
CountDown(p, on, dt) ==
    IF p.type = "timed" /\ p.landed /\ on.id = p.id
    THEN LET t == p.timer - dt
         IN  IF t <= 0 /\ ~p.removing
             THEN [p EXCEPT !.timer = 0, !.removing = TRUE]
             ELSE [p EXCEPT !.timer = t]
    ELSE p

\* lines 287-303
StepTimed(s, dt) ==
    LET on == s.egg.onPlatform
        counted == [i \in 1..Len(s.platforms) |-> CountDown(s.platforms[i], on, dt)]
        touched == {i \in 1..Len(counted) : counted[i] # s.platforms[i]}
        expired == {i \in 1..Len(counted) : counted[i].removing /\ ~s.platforms[i].removing}
        s1 == [s EXCEPT !.platforms = counted,
                        !.egg.onPlatform = Current(counted, @),
                        !.ev.counted = IF touched = {} THEN 0
                                       ELSE counted[CHOOSE i \in touched : TRUE].id]
        s2 == IF expired = {} THEN s1
              ELSE [Expire(s1) EXCEPT !.ev.expired = counted[CHOOSE i \in expired : TRUE].id]
    IN  \* line 269: the local `platforms` keeps naming the array of the tick's start
        \* line 303: g.platforms is a new, filtered array
        [s2 EXCEPT !.lp = s2.platforms,
                   !.platforms = SelectSeq(s2.platforms,
                                           LAMBDA p : ~(p.type = "timed" /\ p.removing))]

\* lines 309-314: the spawn interval of the height band
BirdInterval(height) ==
    IF height >= 40 /\ height < 80 THEN 500
    ELSE IF height >= 80 /\ height < 130 THEN 350
    ELSE IF height >= 130 /\ height < 200 THEN 250
    ELSE IF height >= 200 /\ height < 300 THEN 170
    ELSE IF height >= 300 THEN 120
    ELSE 99999

\* lines 306-325; r = the two values drawn for a new bird
StepBirdSpawn(s, dt, r) ==
    LET timer == s.birdTimer + dt
        height == HeightM(s.heightReached)
        bird == [x |-> W + 30 * 1000,
                 y |-> s.camera.y + 80 * 1000 + Mul(r[1], H - 200 * 1000),
                 speed |-> 1500 + Mul(r[2], 1200) + Min(2000, height * 10)]
    IN  IF timer > BirdInterval(height) * 1000
        THEN [s EXCEPT !.birdTimer = 0, !.birds = Append(@, bird), !.ev.spawned = TRUE]
        ELSE [s EXCEPT !.birdTimer = timer]

RECURSIVE BirdLoop_keepsBird(_, _, _)
\* a bird that hit the egg flies on
BirdLoop_keepsBird(s, i, dt) ==
    IF i > Len(s.birds) THEN s
    ELSE
    LET b == s.birds[i]
        bx == b.x - Mul(b.speed, dt)
        dx == s.egg.x - bx
        dy == s.egg.y - b.y
        hit == Abs(dx) < EGG_R + 14 * 1000 /\ Abs(dy) < EGG_R + 8 * 1000
        grounded == s.state = "idle" \/ s.state = "charging"
        s1 == [s EXCEPT !.birds[i].x = bx]
        s2 == IF ~hit THEN s1
              ELSE [s1 EXCEPT
                      !.egg.vx = -4000,
                      !.egg.onPlatform = IF grounded THEN NoPlatform ELSE @,
                      !.egg.vy = IF grounded THEN -2000 ELSE @,
                      !.state = IF grounded THEN "jumping" ELSE @,
                      !.particles = @ \o Burst(6, 15 * 1000),
                      !.ev.hit = TRUE]
    IN  BirdLoop_keepsBird(s2, i + 1, dt)

RECURSIVE BirdLoop(_, _, _)
\* lines 328-354: the birds from position i on, in order
BirdLoop(s, i, dt) ==
    IF i > Len(s.birds) THEN s
    ELSE
    LET b == s.birds[i]
        bx == b.x - Mul(b.speed, dt)
        dx == s.egg.x - bx
        dy == s.egg.y - b.y
        hit == Abs(dx) < EGG_R + 14 * 1000 /\ Abs(dy) < EGG_R + 8 * 1000
        grounded == s.state = "idle" \/ s.state = "charging"
        s1 == [s EXCEPT !.birds[i].x = bx]
        s2 == IF ~hit THEN s1
              ELSE [s1 EXCEPT
                      !.egg.vx = -4000,
                      !.egg.onPlatform = IF grounded THEN NoPlatform ELSE @,
                      !.egg.vy = IF grounded THEN -2000 ELSE @,
                      !.state = IF grounded THEN "jumping" ELSE @,
                      !.birds[i].x = -100 * 1000,
                      !.particles = @ \o Burst(6, 15 * 1000),
                      !.ev.hit = TRUE]
    IN  BirdLoop(s2, i + 1, dt)

\* lines 328-355
StepBirds(s, dt) ==
    LET s1 == BirdLoop(s, 1, dt)
    IN  [s1 EXCEPT !.birds = SelectSeq(@, LAMBDA b : b.x > -50 * 1000)]

\* the decay without its floor
Decay_unclamped(xp, dt) == xp - Mul(8, dt)

\* line 359: g.xp = Math.max(0, g.xp - 0.008 * dt)
Decay(xp, dt) == Max(0, xp - Mul(8, dt))

\* the decay leaves the tier index alone
StepXpDecay_keepsTier(s, dt, c) ==
    IF (s.state = "idle" \/ s.state = "charging") /\ s.xp > 0
    THEN [s EXCEPT !.xpDecayTimer = @ + dt, !.xp = Decay(s.xp, dt)]
    ELSE s

\* the decay also runs while the egg is in the air
StepXpDecay_airborne(s, dt, c) ==
    IF s.xp > 0
    THEN LET xp == Decay(s.xp, dt)
             newStage == getStage(Floor(xp))
         IN  [s EXCEPT !.xpDecayTimer = @ + dt,
                       !.xp = xp,
                       !.particles = IF newStage < s.stageIdx
                                     THEN @ \o Burst(10, 20 * 1000 + Mul(c, 15 * 1000))
                                     ELSE @,
                       !.stageIdx = newStage]
    ELSE s

\* lines 358-380; c = the value drawn for the particle effects
StepXpDecay(s, dt, c) ==
    IF (s.state = "idle" \/ s.state = "charging") /\ s.xp > 0
    THEN LET xp == Decay(s.xp, dt)
             newStage == getStage(Floor(xp))
         IN  [s EXCEPT !.xpDecayTimer = @ + dt,
                       !.xp = xp,
                       !.particles = IF newStage < s.stageIdx
                                     THEN @ \o Burst(10, 20 * 1000 + Mul(c, 15 * 1000))
                                     ELSE @,
                       !.stageIdx = newStage]
    ELSE s

\* lines 383-395
StepGrounded(s, dt) ==
    IF (s.state = "idle" \/ s.state = "charging") /\ s.egg.onPlatform.id # 0
    THEN LET on == s.egg.onPlatform
             platScreenY == on.y - s.camera.y
         IN  IF platScreenY > H
             THEN [s EXCEPT !.egg.onPlatform = NoPlatform,
                            !.egg.vy = 0,
                            !.state = "jumping",
                            !.ev.scrolledOff = TRUE]
             ELSE [s EXCEPT !.egg.x = Max(EGG_R, Min(W - EGG_R, @ + Mul(on.speed, dt))),
                            !.egg.y = on.y - EGG_R]
    ELSE s

\* lines 399-419: integration, walls, trail particle
Integrate(s, dt, c) ==
    LET vy == s.egg.vy + Mul(GRAVITY, dt)
        x1 == s.egg.x + Mul(s.egg.vx, dt)
        y1 == s.egg.y + Mul(vy, dt)
        left == x1 < EGG_R
        x2 == IF left THEN EGG_R ELSE x1
        vx2 == IF left THEN Mul(Abs(s.egg.vx), 700) ELSE s.egg.vx
        right == x2 > W - EGG_R
        x3 == IF right THEN W - EGG_R ELSE x2
        vx3 == IF right THEN -Mul(Abs(vx2), 700) ELSE vx2
        trail == IF s.perfectFlash > 0 THEN 25 * 1000 ELSE 15 * 1000 + Mul(c, 10 * 1000)
    IN  [s EXCEPT !.egg.vy = vy, !.egg.x = x3, !.egg.y = y1, !.egg.vx = vx3,
                  !.particles = IF vy < -1000 /\ c > 500 THEN Append(@, trail) ELSE @]

\* platforms marked removing can be landed on as well
Lands_removing(s, p, dt) ==
    LET screenY == p.y - s.camera.y
        prevY == s.egg.y - Mul(s.egg.vy, dt)
    IN  /\ ~(screenY < -20 * 1000 \/ screenY > H)
        /\ prevY + EGG_R <= p.y + 4 * 1000
        /\ s.egg.y + EGG_R >= p.y - 2 * 1000
        /\ s.egg.x + Mul(EGG_R, 600) > p.x
        /\ s.egg.x - Mul(EGG_R, 600) < p.x + p.w

\* platforms outside the view can be landed on as well
Lands_offScreen(s, p, dt) ==
    LET prevY == s.egg.y - Mul(s.egg.vy, dt)
    IN  /\ ~p.removing
        /\ prevY + EGG_R <= p.y + 4 * 1000
        /\ s.egg.y + EGG_R >= p.y - 2 * 1000
        /\ s.egg.x + Mul(EGG_R, 600) > p.x
        /\ s.egg.x - Mul(EGG_R, 600) < p.x + p.w

\* lines 427-438: may the egg of s land on platform p in this tick
Lands(s, p, dt) ==
    LET screenY == p.y - s.camera.y
        prevY == s.egg.y - Mul(s.egg.vy, dt)
    IN  /\ ~(screenY < -20 * 1000 \/ screenY > H)
        /\ ~p.removing
        /\ prevY + EGG_R <= p.y + 4 * 1000
        /\ s.egg.y + EGG_R >= p.y - 2 * 1000
        /\ s.egg.x + Mul(EGG_R, 600) > p.x
        /\ s.egg.x - Mul(EGG_R, 600) < p.x + p.w

\* a landing anywhere but level with the best one counts as higher
Higher_orLower(s, p) == p.y # s.highestPlatformY

\* a landing level with the best one counts as higher
Higher_orLevel(s, p) == p.y <= s.highestPlatformY

\* line 449: p.y < g.highestPlatformY
Higher(s, p) == p.y < s.highestPlatformY

\* the score is taken at the height of the egg, not of the platform
Score_eggHeight(score, p) == Max(score, (540 * 1000 - (p.y - EGG_R)) \div (12 * 1000))

\* the score of the last landing
Score_last(score, p) == (540 * 1000 - p.y) \div (12 * 1000)

\* line 457: Math.max(g.score, Math.floor((540 - p.y) / 12))
Score(score, p) == Max(score, (540 * 1000 - p.y) \div (12 * 1000))

\* lines 439-498: the egg lands on the platform at position i of the local array
Land(s, i, c) ==
    LET p == [s.lp[i] EXCEPT !.landed = IF s.lp[i].type = "timed" THEN TRUE ELSE @]
        higher == Higher(s, p)
        xp == IF higher THEN s.xp + 3 * 1000 ELSE s.xp
        stageIdx == getStage(Floor(xp))
        lp == [s.lp EXCEPT ![i] = p]
    IN  [s EXCEPT
            !.lp = lp,
            !.platforms = [j \in 1..Len(s.platforms) |-> Current(lp, s.platforms[j])],
            !.egg = [x |-> s.egg.x, y |-> p.y - EGG_R, vx |-> 0, vy |-> 0, onPlatform |-> p],
            !.state = "idle",
            !.xp = xp,
            !.highestPlatformY = IF higher THEN p.y ELSE @,
            !.landingFx = [timer |-> 20 * 1000, text |-> IF higher THEN "+3 XP" ELSE "SAFE"],
            !.score = Score(@, p),
            !.xpDecayTimer = 0,
            !.prevStageIdx = s.stageIdx,
            !.stageIdx = stageIdx,
            !.particles = @ \o Burst(8, 20 * 1000 + Mul(c, 15 * 1000))
                            \o (IF stageIdx > s.stageIdx
                                THEN Burst(20, 30 * 1000 + Mul(c, 20 * 1000)) ELSE <<>>),
            !.ev.landed = p.id,
            !.ev.gainedXp = higher]

\* the landing check without the test that the egg is coming down
LandingCheck_ascending(s, dt, c) ==
    IF s.egg.y - s.camera.y < H + 10 * 1000
    THEN LET hits == {i \in 1..Len(s.lp) : Lands(s, s.lp[i], dt)}
         IN  IF hits = {} THEN s
             ELSE Land(s, CHOOSE i \in hits : \A j \in hits : i <= j, c)
    ELSE s

\* lines 422-502: the first platform of the local array that the egg lands on
LandingCheck(s, dt, c) ==
    IF s.egg.vy > 0 /\ s.egg.y - s.camera.y < H + 10 * 1000
    THEN LET hits == {i \in 1..Len(s.lp) : Lands(s, s.lp[i], dt)}
         IN  IF hits = {} THEN s
             ELSE Land(s, CHOOSE i \in hits : \A j \in hits : i <= j, c)
    ELSE s

\* the game ends without the high score being updated
GameOverCheck_noRecord(s) ==
    IF s.egg.y > s.camera.y + H + 20 * 1000
    THEN [s EXCEPT !.state = "gameover",
                   !.ev.over = TRUE]
    ELSE s

\* lines 505-510
GameOverCheck(s) ==
    IF s.egg.y > s.camera.y + H + 20 * 1000
    THEN [s EXCEPT !.state = "gameover",
                   !.highScore = Max(@, s.score),
                   !.ev.over = TRUE]
    ELSE s

\* lines 398-511
StepJumping(s, dt, c) ==
    IF s.state = "jumping"
    THEN LET moved == {Integrate(t, dt, c) : t \in {s}}
             landed == {LandingCheck(t, dt, c) : t \in moved}
         IN  CHOOSE t \in {GameOverCheck(u) : u \in landed} : TRUE
    ELSE s

\* the camera follows the egg down as well as up
StepCamera_follows(s, dt) ==
    LET targetCamY == s.egg.y - Mul(H, 550)
    IN  [s EXCEPT !.camera.y = @ + Mul(Mul(targetCamY - @, 70), dt),
                  !.heightReached = Min(@, s.egg.y)]

\* lines 514-518
StepCamera(s, dt) ==
    LET targetCamY == s.egg.y - Mul(H, 550)
        y == IF targetCamY < s.camera.y
             THEN s.camera.y + Mul(Mul(targetCamY - s.camera.y, 70), dt)
             ELSE s.camera.y
    IN  [s EXCEPT !.camera.y = y,
                  !.heightReached = Min(@, s.egg.y)]

\* the loop that never runs
Generate_never(platforms, minY, cameraY, stream, id) == platforms

RECURSIVE Generate(_, _, _, _, _)
\* lines 522-527: while (minY > camera.y - 300) push a platform 80 above minY
Generate(platforms, minY, cameraY, stream, id) ==
    IF minY > cameraY - 300 * 1000
    THEN LET idx == Len(platforms)
             newY == minY - PLATFORM_GAP
             k == (540 * 1000 - newY) \div PLATFORM_GAP
         IN  Generate(Append(platforms, createPlatform(newY, idx, Random(stream, k), id)),
                      newY, cameraY, stream, id + 1)
    ELSE platforms

\* lines 521-528, on the local `platforms`
StepManage(s, stream, id) ==
    LET minY == SeqMin([i \in 1..Len(s.lp) |-> s.lp[i].y])
        lp == Generate(s.lp, minY, s.camera.y, stream, id)
        added == [i \in 1..(Len(lp) - Len(s.lp)) |->
                    <<lp[Len(s.lp) + i].y, Len(s.lp) + i - 1>>]
    IN  [s EXCEPT !.lp = lp,
                  !.platforms = SelectSeq(lp, LAMBDA p : p.y < s.camera.y + H + 50 * 1000),
                  !.ev.generated = added]

\* lines 531-548
StepFx(s, dt) ==
    LET aged == [i \in 1..Len(s.particles) |-> s.particles[i] - dt]
        fx == IF s.landingFx # NoFx
              THEN IF s.landingFx.timer - dt <= 0 THEN NoFx
                   ELSE [s.landingFx EXCEPT !.timer = @ - dt]
              ELSE NoFx
    IN  [s EXCEPT !.particles = SelectSeq(aged, LAMBDA life : life > 0),
                  !.landingFx = fx,
                  !.perfectFlash = IF @ > 0 THEN @ - dt ELSE @]

GameFields ==
    {"state", "egg", "platforms", "camera", "power", "score", "highScore", "xp",
     "xpDecayTimer", "stageIdx", "prevStageIdx", "particles", "birds", "birdTimer",
     "perfectFlash", "landingFx", "heightReached", "highestPlatformY"}

\* lines 269-548: the blocks of update in order
Pipeline(s, dt, stream, id, c) ==
    LET \* each block works on the value the block before it has left
        s1 == {StepPower(t, dt) : t \in {s}}
        s2 == {StepPlatforms(t, dt) : t \in s1}
        s3 == {StepTimed(t, dt) : t \in s2}
        s4 == {StepBirdSpawn(t, dt, BirdRandom(stream)) : t \in s3}
        s5 == {StepBirds(t, dt) : t \in s4}
        s6 == {StepXpDecay(t, dt, c) : t \in s5}
        s7 == {StepGrounded(t, dt) : t \in s6}
        s8 == {StepJumping(t, dt, c) : t \in s7}
        s9 == {StepCamera(t, dt) : t \in s8}
        s10 == {StepManage(t, stream, id) : t \in s9}
    IN  CHOOSE t \in {StepFx(u, dt) : u \in s10} : TRUE

\* update also returns at once while the egg is in the air
Steps_airborneReturn(s, dt, stream, id, c) ==
    IF s.state = "gameover" \/ s.state = "jumping" THEN s
    ELSE Pipeline(s, dt, stream, id, c)

\* update without the early return of line 267
Steps_noReturn(s, dt, stream, id, c) == Pipeline(s, dt, stream, id, c)

\* update(dt) on the working state: g.state === "gameover" returns at once
Steps(s, dt, stream, id, c) ==
    IF s.state = "gameover" THEN s ELSE Pipeline(s, dt, stream, id, c)

\* the working state update starts from
Enter(game, dt) ==
    [f \in GameFields \cup {"lp", "ev"} |->
        IF f = "lp" THEN game.platforms
        ELSE IF f = "ev" THEN [NoEvents EXCEPT !.dt = dt, !.from = game.state]
        ELSE game[f]]

update(game, dt, stream, id, c) == Steps(Enter(game, dt), dt, stream, id, c)

\* line 258: dt = Math.min((time - lastTime) / 16.67, 2.5), elapsed in 0.01 ms
LoopDt(elapsed) == Min((elapsed * 1000) \div 1667, 2500)

----------------------------------------------------------------------------
(* Bounds of the explored behaviours *)

\* frame intervals of the display, in 0.01 ms: 60 Hz, and 20 Hz (clamped to dt = 2.5)
FrameIntervals == {1667, 5000}

\* animation frames per behaviour
MaxTicks == 260

\* effective releaseJump commands per behaviour
MaxJumps == 3

\* ticks spent in state idle, per behaviour
MaxIdleTicks == 1

\* the longest the meter is held on a platform that does not decay, in units of the
\* nominal frame: one sweep from 0 to 100
MaxChargeTime == 63

\* power-meter values at which the player lets go
ReleasePowers == {8 * 1000, 72 * 1000, 100 * 1000}

\* the climbing player: charges at once after every landing and lets go only at full
\* power, at the first or the second time the meter is full
ClimbTicks == 410

ClimbJumps == 7

ClimbChargeTime == 190

ClimbPlan ==
    [ticks |-> ClimbTicks, jumps |-> ClimbJumps, idle |-> 0, charge |-> 0,
     hold |-> ClimbChargeTime * 1000, powers |-> {100 * 1000}]

\* the resting player: lets go at power 80 and then keeps holding the meter
RestTicks == 320

RestJumps == 1

RestChargeTime == 440

RestPlan ==
    [ticks |-> RestTicks, jumps |-> RestJumps, idle |-> 0, charge |-> 0,
     hold |-> RestChargeTime * 1000, powers |-> {80 * 1000}]

\* the absent player: leaves the egg on the seed platform for over half an hour
IdleTicks == 40000

IdlePlan ==
    [ticks |-> IdleTicks, jumps |-> 0, idle |-> IdleTicks, charge |-> 0,
     hold |-> 0, powers |-> {}]

\* the plans, each with the frame interval of the display it is played on, in 0.01 ms:
\* the climb and the absence at 20 Hz (dt clamped to 2.5), the rest at 30 Hz (dt = 2)
Plans == {<<5000, ClimbPlan>>, <<3334, RestPlan>>, <<5000, IdlePlan>>}

\* the player in front of an unsteady clock: lets go at any power
ClockTicks == 5

ClockJumps == 1

ClockPlan ==
    [ticks |-> ClockTicks, jumps |-> ClockJumps, idle |-> ClockTicks, charge |-> 0,
     hold |-> 0, powers |-> 0..(100 * 1000)]

\* timestamps an unsteady clock delivers, in 0.01 ms: 10 s after the page was loaded,
\* 333.4 ms later and one nominal frame after that, in any order
Timestamps == {1000000, 1033340, 1035007}

----------------------------------------------------------------------------
(* Specification *)

Game(s) == [f \in GameFields |-> s[f]]

\* the history of a run that has just been reset: no landing yet, and the indices
\* 1..25 given to the platforms of the initial column
NoRun == [landings |-> {}, lastIndex |-> 25]

\* the history after a tick that ended in working state s: y of every platform landed
\* on, and the greatest index given to a platform so far
Record(s) ==
    [landings |-> IF s.ev.landed # 0 THEN run.landings \cup {s.egg.onPlatform.y}
                  ELSE run.landings,
     lastIndex |-> LET given == {s.ev.generated[i][2] : i \in 1..Len(s.ev.generated)}
                   IN  CHOOSE m \in given \cup {run.lastIndex} :
                           \A n \in given \cup {run.lastIndex} : n <= m]

Init ==
    /\ \E stream \in RandomStreams :
          /\ rnd = stream
          /\ g = initGame(Constructed, stream, 1)
    /\ frame \in FrameIntervals
    /\ nextId = 27
    /\ op = "initGame"
    /\ ev = NoEvents
    /\ lastTime = 0
    /\ run = NoRun
    /\ budget = [ticks |-> MaxTicks, jumps |-> MaxJumps, idle |-> MaxIdleTicks, charge |-> 0,
                 hold |-> MaxChargeTime * 1000, powers |-> ReleasePowers]

\* handlePointerDown / onKeyDown in state gameover: initGame()
InitGame ==
    /\ g.state = "gameover"
    /\ \E stream \in RandomStreams :
          /\ rnd' = stream
          /\ g' = initGame(g, stream, nextId)
    /\ nextId' = nextId + 26
    /\ op' = "initGame"
    /\ ev' = [NoEvents EXCEPT !.from = g.state]
    /\ run' = NoRun
    /\ UNCHANGED <<frame, lastTime, budget>>

\* handlePointerDown / onKeyDown in any other state: startCharging()
StartCharging ==
    /\ g.state # "gameover"
    /\ g' = startCharging(g)
    /\ IF g' = g THEN UNCHANGED <<op, ev, budget>>
       ELSE /\ op' = "startCharging"
            /\ ev' = [NoEvents EXCEPT !.from = g.state]
            /\ budget' = [budget EXCEPT !.charge = 0]
    /\ UNCHANGED <<frame, rnd, nextId, lastTime, run>>

\* handlePointerUp / onKeyUp: releaseJump()
ReleaseJump ==
    /\ g.state = "charging" => budget.jumps > 0 /\ g.power.value \in budget.powers
    /\ \E c \in CosmeticDraws : g' = releaseJump(g, c)
    /\ IF g' = g THEN UNCHANGED <<op, ev, budget>>
       ELSE /\ op' = "releaseJump"
            /\ ev' = [NoEvents EXCEPT !.from = g.state, !.launched = g.egg.onPlatform]
            /\ budget' = [budget EXCEPT !.jumps = @ - 1]
    /\ UNCHANGED <<frame, rnd, nextId, lastTime, run>>

\* the bounds leave room for one more tick of dt
Within(dt) ==
    /\ budget.ticks > 0
    /\ g.state = "idle" => budget.idle > 0
    /\ g.state = "charging" /\ g.egg.onPlatform.type # "timed"
          => budget.charge + dt <= budget.hold

\* update(dt) called from loop: the game, the events of the tick and the run's history
Update(dt) ==
    /\ \E c \in CosmeticDraws :
       \E s \in {update(g, dt, rnd, nextId, c)} :
          /\ g' = Game(s)
          /\ ev' = s.ev
          /\ nextId' = nextId + Len(s.ev.generated)
          /\ run' = Record(s)
    /\ op' = "loop"
    /\ UNCHANGED <<frame, rnd>>

\* loop(time): one animation frame, update(dt) and lastTime = time
Frame(time) ==
    /\ Update(LoopDt(time - lastTime))
    /\ lastTime' = time
    /\ budget' = [budget EXCEPT
                    !.ticks = @ - 1,
                    !.idle = IF g.state = "idle" THEN @ - 1 ELSE @,
                    !.charge = IF g.state = "charging"
                               THEN @ + LoopDt(time - lastTime) ELSE @]

\* the scheduler of a display that delivers its frames at a steady rate
Loop ==
    /\ Within(LoopDt(frame))
    /\ Frame(lastTime + frame)

Next == InitGame \/ StartCharging \/ ReleaseJump \/ Loop

Spec == Init /\ [][Next]_vars

\* long behaviours of a player who follows a plan
InitPlan ==
    /\ \E stream \in RandomStreams :
          /\ rnd = stream
          /\ g = initGame(Constructed, stream, 1)
    /\ \E plan \in Plans :
          /\ frame = plan[1]
          /\ budget = plan[2]
    /\ nextId = 27
    /\ lastTime = 0
    /\ run = NoRun
    /\ op = "initGame"
    /\ ev = NoEvents

SpecPlan == InitPlan /\ [][Next]_vars

\* a frame of the steady display while the egg is on a platform or the game is over
Rest ==
    /\ g.state # "jumping"
    /\ Loop

\* a frame of the steady display while the egg is in the air.  These frames are not
\* counted against the bounds and the clock is not kept for them: dt is the same for
\* every frame of a steady display
Fall ==
    /\ g.state = "jumping"
    /\ Update(LoopDt(frame))
    /\ UNCHANGED <<lastTime, budget>>

NextLive == InitGame \/ StartCharging \/ ReleaseJump \/ Rest \/ Fall

\* the climbing player who lets go the first time the meter is full
LiveTicks == 200

LiveJumps == 7

LiveChargeTime == 63

LivePlan ==
    [ticks |-> LiveTicks, jumps |-> LiveJumps, idle |-> 0, charge |-> 0,
     hold |-> LiveChargeTime * 1000, powers |-> {100 * 1000}]

\* that player on a display that never stops delivering frames (loop requests the next
\* animation frame at its end): a flight is never cut short by the bounds
InitLive ==
    /\ \E stream \in RandomStreams :
          /\ rnd = stream
          /\ g = initGame(Constructed, stream, 1)
    /\ frame = 5000
    /\ budget = LivePlan
    /\ nextId = 27
    /\ lastTime = 0
    /\ run = NoRun
    /\ op = "initGame"
    /\ ev = NoEvents

SpecLive == InitLive /\ [][NextLive]_vars /\ WF_vars(Fall)

\* short behaviours under a scheduler that delivers any timestamp at any frame
InitClock ==
    /\ \E stream \in RandomStreams :
          /\ rnd = stream
          /\ g = initGame(Constructed, stream, 1)
    /\ frame = 1667
    /\ nextId = 27
    /\ lastTime = 0
    /\ run = NoRun
    /\ op = "initGame"
    /\ ev = NoEvents
    /\ budget = ClockPlan

\* loop(time) with the timestamp the scheduler hands over
LoopAt ==
    /\ budget.ticks > 0
    /\ \E time \in Timestamps : Frame(time)

NextClock == InitGame \/ StartCharging \/ ReleaseJump \/ LoopAt

SpecClock == InitClock /\ [][NextClock]_vars

----------------------------------------------------------------------------
(* Properties *)

\* the identities of the platform objects in the column of game
Ids(game) == {game.platforms[i].id : i \in 1..Len(game.platforms)}

\* the platform object with identity id in the column of game
PlatformOf(game, id) ==
    game.platforms[CHOOSE i \in 1..Len(game.platforms) : game.platforms[i].id = id]

Detached == ev'.expired # 0 \/ ev'.hit \/ ev'.scrolledOff

\* C1: the game state changes only along idle->charging (startCharging),
\* charging->jumping (releaseJump, or a detachment inside a tick), idle->jumping (a
\* detachment inside a tick), jumping->idle (a landing inside a tick),
\* jumping->gameover (inside a tick) and gameover->idle (initGame).
C1_Edges ==
    [][ g'.state # g.state =>
          \/ g.state = "idle" /\ g'.state = "charging" /\ op' = "startCharging"
          \/ g.state = "charging" /\ g'.state = "jumping"
                /\ (op' = "releaseJump" \/ (op' = "loop" /\ Detached))
          \/ g.state = "idle" /\ g'.state = "jumping" /\ op' = "loop" /\ Detached
          \/ g.state = "jumping" /\ g'.state = "idle" /\ op' = "loop" /\ ev'.landed # 0
          \/ g.state = "jumping" /\ g'.state = "gameover" /\ op' = "loop"
          \/ g.state = "gameover" /\ g'.state = "idle" /\ op' = "initGame" ]_vars

\* a tick detached a charging climber: the edge charging->jumping taken inside a tick
C1_Witness == op = "loop" /\ ev.from = "charging" /\ ev.expired # 0 /\ g.state = "jumping"

\* C2: egg.onPlatform is null whenever the game state is jumping or gameover.
C2_NullWhenAirborne ==
    g.state \in {"jumping", "gameover"} => g.egg.onPlatform = NoPlatform

\* the climber has fallen out of the view after a jump
C2_Witness == g.state = "gameover" /\ ev.over /\ g.egg.onPlatform = NoPlatform

\* C3 (as claimed): no timed platform marked removing is a member of the column after
\* an operation; the tick in which it expires purges it, and it stays away.
C3_Purged ==
    \A i \in 1..Len(g.platforms) :
        ~(g.platforms[i].type = "timed" /\ g.platforms[i].removing)

\* C4: a timed platform's timer never increases, and it changes only in a tick that
\* starts with the platform landed and the egg resting on it.
C4_TimerFrozen ==
    [][ \A id \in Ids(g) \cap Ids(g') :
          LET p == PlatformOf(g, id)
              q == PlatformOf(g', id)
          IN  /\ q.timer <= p.timer
              /\ q.timer # p.timer =>
                    /\ op' = "loop"
                    /\ p.type = "timed" /\ p.landed
                    /\ g.state \in {"idle", "charging"}
                    /\ g.egg.onPlatform.id = id
                    /\ q.timer = Max(0, p.timer - ev'.dt) ]_vars

\* the egg landed again on a timed platform whose countdown had already run for a while
C4_Witness ==
    /\ op = "loop" /\ ev.landed # 0
    /\ g.egg.onPlatform.type = "timed"
    /\ g.egg.onPlatform.timer < 300 * 1000
    /\ PlatformOf(g, ev.landed).timer = g.egg.onPlatform.timer

\* C5 (as claimed): at the end of the tick in which the timed platform under the egg
\* expires, the egg is detached, its vertical velocity is zero and the state is jumping.
C5_ZeroVelocity ==
    op = "loop" /\ ev.expired # 0 =>
        g.egg.onPlatform = NoPlatform /\ g.egg.vy = 0 /\ g.state = "jumping"

\* C5 (amended): at the end of that tick the egg is detached, the state is jumping and
\* the vertical velocity is one gravity step from zero, GRAVITY * dt.
C5_FallsFromRest ==
    op = "loop" /\ ev.expired # 0 =>
        /\ g.egg.onPlatform = NoPlatform
        /\ g.state = "jumping"
        /\ g.egg.vy = Mul(GRAVITY, ev.dt)

\* the timed platform expired under an egg that stood on it
C5_Witness == op = "loop" /\ ev.expired # 0 /\ ev.counted = ev.expired /\ ev.from # "jumping"

\* C6: releaseJump from a fragile platform removes it from the column, and a platform
\* that is not in the column never enters it again: every member of the next column
\* is a member of this one or a newly created object.
C6_FragileGone ==
    [][ /\ g.state = "charging" /\ op' = "releaseJump" /\ g.egg.onPlatform.type = "fragile"
            => g.egg.onPlatform.id \in Ids(g) \ Ids(g')
        /\ \A id \in Ids(g') : id \in Ids(g) \/ id >= nextId ]_vars

\* the egg has just jumped off a fragile platform that was in the column
C6_Witness ==
    op = "releaseJump" /\ ev.launched.type = "fragile" /\ ev.launched.id \notin Ids(g)

\* C7: startCharging outside idle and releaseJump outside charging leave the whole
\* game object unchanged.
C7_Ignored ==
    /\ g.state # "idle" => startCharging(g) = g
    /\ g.state # "charging" => \A c \in CosmeticDraws : releaseJump(g, c) = g

\* a tick has just detached a charging climber, so a release now comes too late
C7_Witness ==
    /\ op = "loop" /\ ev.from = "charging" /\ g.state = "jumping"
    /\ g.egg.vy = Mul(GRAVITY, ev.dt)

\* C8: in state gameover a tick and the two commands change nothing; the state is
\* left only by initGame, to idle.
C8_Terminal ==
    [][ g.state = "gameover" =>
          \/ g' = g
          \/ op' = "initGame" /\ g'.state = "idle" ]_vars

\* a tick was executed in state gameover
C8_Witness == g.state = "gameover" /\ op = "loop" /\ ev.from = "gameover"

\* the state initGame leaves: seed platform first, 25 generated platforms above it,
\* the egg at rest on the seed, counters zero
AfterReset(game) ==
    /\ game.state = "idle"
    /\ Len(game.platforms) = 26
    /\ LET seed == game.platforms[1]
       IN  /\ seed.y = 540 * 1000 /\ seed.w = 180 * 1000 /\ seed.x = 110 * 1000
           /\ seed.speed = 0 /\ seed.type = "normal"
           /\ ~seed.landed /\ ~seed.removing
           /\ game.egg = [x |-> 200 * 1000, y |-> 540 * 1000 - EGG_R, vx |-> 0, vy |-> 0,
                          onPlatform |-> seed]
    /\ \A i \in 1..25 : game.platforms[i + 1].y = 540 * 1000 - 80 * 1000 * i
    /\ game.score = 0 /\ game.xp = 0 /\ game.stageIdx = 0
    /\ game.camera.y = 0
    /\ game.highestPlatformY = 540 * 1000
    /\ game.birds = <<>> /\ game.particles = <<>>

\* C9: after initGame the game is in the reset state, whatever it was before, and the
\* high score is the one from before the reset.
C9_Reset ==
    /\ [](op = "initGame" => AfterReset(g))
    /\ [][op' = "initGame" => g'.highScore = g.highScore]_vars

\* a reset after a run that had set a high score, carried over
C9_Witness == op = "initGame" /\ ev.from = "gameover" /\ g.highScore > 0

\* C10: releaseJump in state charging launches with
\* vy = -(MAX_JUMP_VEL * max(0.15, power/100) * (1 + 0.12*stageIdx)) and
\* vx = 0.35 * speed of the launch platform, detaches the egg and enters jumping;
\* at power 100 and tier 0 the launch speed is MAX_JUMP_VEL.
C10_Launch ==
    [][ g.state = "charging" /\ op' = "releaseJump" =>
          LET frac == IF g.power.value < 15 * 1000 THEN 150 ELSE g.power.value \div 100
              tier == 1000 + 120 * g.stageIdx
          IN  /\ g'.egg.vy = -Mul(Mul(11500, frac), tier)
              /\ g'.egg.vx = Mul(PlatformOf(g, g.egg.onPlatform.id).speed, 350)
              /\ g'.egg.onPlatform = NoPlatform
              /\ g'.state = "jumping"
              /\ g.power.value = 100 * 1000 /\ g.stageIdx = 0
                    => g'.egg.vy = -MAX_JUMP_VEL ]_vars

\* a release from a moving platform at tier 1, below full power
C10_Witness ==
    /\ op = "releaseJump" /\ g.stageIdx = 1 /\ g.egg.vx # 0
    /\ g.power.value = 72 * 1000

\* C11: a landing on a platform strictly higher than every platform landed on before
\* adds exactly 3 to the experience, records the platform's y as highestPlatformY and
\* shows '+3 XP'; any other landing leaves both unchanged and shows 'SAFE'.
C11_LandingBonus ==
    [][ op' = "loop" /\ ev'.landed # 0 =>
          LET p == g'.egg.onPlatform
          IN  /\ p.id = ev'.landed
              /\ IF p.y < g.highestPlatformY
                 THEN /\ g'.xp = g.xp + 3 * 1000
                      /\ g'.highestPlatformY = p.y
                      /\ g'.landingFx.text = "+3 XP"
                 ELSE /\ g'.xp = g.xp
                      /\ g'.highestPlatformY = g.highestPlatformY
                      /\ g'.landingFx.text = "SAFE" ]_vars

\* the egg came down on a platform it had reached before, after an earlier bonus
C11_Witness ==
    /\ op = "loop" /\ ev.landed # 0 /\ g.landingFx.text = "SAFE"
    /\ g.egg.onPlatform.y = g.highestPlatformY /\ g.highestPlatformY < 540 * 1000
    /\ g.xp > 0

\* the greatest floor((540 - y)/12) over the platform heights ys, and 0
BestOf(ys) ==
    LET hs == {(540 * 1000 - y) \div (12 * 1000) : y \in ys} \cup {0}
    IN  CHOOSE m \in hs : \A h \in hs : h <= m

\* C12: at every point of a run the score is the maximum of 0 and of
\* floor((540 - y)/12) over the platforms landed on so far in the run, and within a run
\* the score never decreases.
C12_Score ==
    /\ [](g.score = BestOf(run.landings))
    /\ [][op' # "initGame" => g'.score >= g.score]_vars

\* the egg landed on a platform below the best one of the run
C12_Witness ==
    /\ op = "loop" /\ ev.landed # 0
    /\ g.egg.onPlatform.y > g.highestPlatformY
    /\ g.score > (540 * 1000 - g.egg.onPlatform.y) \div (12 * 1000)

\* C13: within a run highestPlatformY never increases; it changes only in a tick in
\* which the egg lands on a platform of strictly smaller y, to that y.
C13_HighestMonotone ==
    [][ op' # "initGame" =>
          /\ g'.highestPlatformY <= g.highestPlatformY
          /\ g'.highestPlatformY # g.highestPlatformY =>
                /\ op' = "loop" /\ ev'.landed # 0
                /\ g'.egg.onPlatform.y < g.highestPlatformY
                /\ g'.highestPlatformY = g'.egg.onPlatform.y ]_vars

\* a landing below the best platform of the run has left highestPlatformY alone
C13_Witness ==
    /\ op = "loop" /\ ev.landed # 0 /\ ~ev.gainedXp
    /\ g.egg.onPlatform.y > g.highestPlatformY
    /\ g.highestPlatformY < 540 * 1000

\* C14: the experience is never negative, whatever the sequence of initGame,
\* startCharging, releaseJump and ticks.
C14_XpNonNegative == g.xp >= 0

\* the decay has used up the 3 XP of a landing while the egg rested: the last step of
\* the decay was cut at zero
C14_Witness ==
    /\ op = "loop" /\ ev.from = "charging" /\ g.state = "charging"
    /\ g.xp = 0 /\ g.highestPlatformY < 540 * 1000

\* C15: a tick in which the airborne egg ends below camera.y + H + 20 ends in gameover
\* with highScore = max(highScore of before, score); no other step changes highScore,
\* so it never decreases, also across initGame.
C15_GameOver ==
    [][ /\ g'.highScore >= g.highScore
        /\ g'.highScore # g.highScore => op' = "loop" /\ ev'.over
        /\ op' = "loop" /\ g.state # "gameover" =>
              /\ ev'.over <=> /\ ev'.landed = 0
                             /\ g'.state \in {"jumping", "gameover"}
                             /\ g'.egg.y > g.camera.y + H + 20 * 1000
              /\ ev'.over => /\ g'.state = "gameover"
                             /\ g.state = "jumping"
                             /\ g'.highScore = Max(g.highScore, g'.score)
                             /\ g'.score = g.score ]_vars

\* the egg fell out of the view at the end of a run with a score, which is the record
C15_Witness ==
    /\ op = "loop" /\ ev.over /\ ev.from = "jumping" /\ g.state = "gameover"
    /\ g.egg.y > g.camera.y + H + 20 * 1000
    /\ g.score > 0 /\ g.highScore = g.score

\* C16: within a run the camera offset never increases; a tick moves it only when the
\* target, egg.y - 0.55*H, is below it, and never past the target; the commands leave
\* it alone.
C16_CameraUp ==
    [][ op' # "initGame" =>
          LET targetCamY == g'.egg.y - Mul(H, 550)
          IN  /\ g'.camera.y <= g.camera.y
              /\ g'.camera.y # g.camera.y =>
                    /\ op' = "loop"
                    /\ targetCamY < g.camera.y
                    /\ targetCamY <= g'.camera.y ]_vars

\* the camera is on its way up to the target and has not reached it
C16_Witness ==
    /\ op = "loop" /\ ev.dt = 2500
    /\ g.camera.y < 0 /\ g.egg.y - Mul(H, 550) < g.camera.y

\* the smallest y of the column of game
MinY(game) == SeqMin([i \in 1..Len(game.platforms) |-> game.platforms[i].y])

\* C17 (as claimed): every platform a tick appends to the column is created 80 above
\* the smallest y of the column, with an index strictly greater than every index given
\* to a platform earlier in the run.
C17_Sequential ==
    [][ op' = "loop" =>
          \A i \in 1..Len(ev'.generated) :
              /\ ev'.generated[i][1] = MinY(g) - i * PLATFORM_GAP
              /\ ev'.generated[i][2] >
                    (IF i = 1 THEN run.lastIndex ELSE ev'.generated[i - 1][2]) ]_vars

\* C18: after initGame and at the end of every tick the column is not empty, its
\* smallest y is at most camera.y - 300 and every platform in it has
\* y < camera.y + H + 50.
C18_Column ==
    op \in {"initGame", "loop"} =>
        /\ Len(g.platforms) > 0
        /\ MinY(g) <= g.camera.y - 300 * 1000
        /\ \A i \in 1..Len(g.platforms) : g.platforms[i].y < g.camera.y + H + 50 * 1000

\* a tick has appended a platform to a column that had lost platforms at its lower end
C18_Witness ==
    /\ op = "loop" /\ ev.generated # <<>>
    /\ g.platforms[1].y < 540 * 1000
    /\ g.platforms[Len(g.platforms)].y = MinY(g)
    /\ MinY(g) < 540 * 1000 - 25 * PLATFORM_GAP

\* C19 (as claimed): whatever timestamps the scheduler delivers, the time-delta that
\* loop hands to update is at least 0 and at most 2.5.
C19_Clamped == op = "loop" => ev.dt >= 0 /\ ev.dt <= 2500

\* C20: a tick lands the egg only from state jumping, only when after integration its
\* vertical velocity is > 0 and its screen y is < H + 10, and only on a platform of the
\* column that is not marked removing and whose screen y is in [-20, H]; after the
\* landing the egg is at platform.y - EGG_R with both velocities 0, onPlatform is that
\* platform, the state is idle and a timed platform has landed = TRUE.
C20_Landing ==
    [][ op' = "loop" /\ ev'.landed # 0 =>
          /\ g.state = "jumping" /\ g'.state = "idle"
          /\ ev'.landed \in Ids(g)
          /\ LET p == PlatformOf(g, ev'.landed)
                 q == g'.egg.onPlatform
                 vy == g.egg.vy + Mul(GRAVITY, ev'.dt)
                 y == g.egg.y + Mul(vy, ev'.dt)
             IN  /\ vy > 0
                 /\ y - g.camera.y < H + 10 * 1000
                 /\ ~p.removing
                 /\ p.y - g.camera.y >= -20 * 1000 /\ p.y - g.camera.y <= H
                 /\ q.id = p.id /\ q.y = p.y
                 /\ g'.egg.y = p.y - EGG_R
                 /\ g'.egg.vx = 0 /\ g'.egg.vy = 0
                 /\ p.type = "timed" => q.landed /\ PlatformOf(g', p.id).landed ]_vars

\* the egg came down on a timed platform that had not been landed on before
C20_Witness ==
    /\ op = "loop" /\ ev.landed # 0 /\ g.state = "idle"
    /\ g.egg.onPlatform.type = "timed" /\ g.egg.onPlatform.landed
    /\ g.egg.onPlatform.timer = 300 * 1000
    /\ g.egg.vy = 0 /\ g.egg.y = g.egg.onPlatform.y - EGG_R


\* the bird of the pre-state at position i overlaps the egg once it has moved by dt
Overlaps(i, dt) ==
    LET b == g.birds[i]
    IN  /\ Abs(g.egg.x - (b.x - Mul(b.speed, dt))) < EGG_R + 14 * 1000
        /\ Abs(g.egg.y - b.y) < EGG_R + 8 * 1000

\* C21: a bird overlaps the egg in a tick (|dx| < EGG_R + 14 and |dy| < EGG_R + 8)
\* exactly when the tick registers a hit.  A hit sets egg.vx to -4 (the integration
\* of the same tick may still bounce it off the left wall, or a landing zero it); an
\* egg that was idle or charging is detached, ends the tick in state jumping with
\* vy = -2 + GRAVITY * dt, and the meter is what the tick made of it without the hit;
\* for an egg that was already jumping, state and vy are those of a tick without the
\* hit; and the bird is gone from g.birds when the tick ends.
C21_BirdHit ==
    [][ op' = "loop" /\ ev'.from # "gameover" =>
          LET dt == ev'.dt
              airborne == g.state = "jumping" \/ ev'.expired # 0
              hitters == {i \in 1..Len(g.birds) : Overlaps(i, dt)}
          IN  /\ ev'.hit <=> hitters # {}
              /\ ev'.hit =>
                    /\ Len(g'.birds) + Cardinality(hitters)
                          <= Len(g.birds) + (IF ev'.spawned THEN 1 ELSE 0)
                    /\ \A j \in 1..Len(g'.birds) : g'.birds[j].x > -50 * 1000
                    /\ \/ g'.egg.vx = -4000
                       \/ g'.egg.vx = 2800 /\ g'.egg.x = EGG_R
                       \/ g'.egg.vx = 0 /\ ev'.landed # 0
                    /\ ~airborne =>
                          /\ g'.state = "jumping"
                          /\ g'.egg.onPlatform = NoPlatform
                          /\ g'.egg.vy = -2000 + Mul(GRAVITY, dt)
                          /\ g.state = "idle" => g'.power = g.power
                          /\ g.state = "charging" => g'.power = StepPower(g, dt).power
                    /\ airborne =>
                          /\ g'.state = IF ev'.landed # 0 THEN "idle"
                                        ELSE IF ev'.over THEN "gameover" ELSE "jumping"
                          /\ ev'.landed = 0 =>
                                g'.egg.vy = (IF ev'.expired # 0 THEN 0 ELSE g.egg.vy)
                                               + Mul(GRAVITY, dt)
                          /\ g'.power = g.power ]_vars

\* a bird has knocked a charging egg off its platform
C21_Witness ==
    /\ op = "loop"
    /\ ev.hit
    /\ ev.from = "charging"
    /\ ev.expired = 0
    /\ g.state = "jumping"
    /\ g.egg.onPlatform = NoPlatform


\* what a step other than a reset does to the meter: a tick that starts in state
\* charging advances it by dir * speed * dt, stops it at 0 and at 100 and turns it
\* round there; an effective startCharging sets it to 0, rising; nothing else touches it
MeterStep ==
    IF op' = "loop" /\ g.state = "charging"
    THEN LET v == g.power.value + g.power.dir * Mul(g.power.speed, ev'.dt)
         IN  /\ g'.power.value = IF v >= 100 * 1000 THEN 100 * 1000
                                 ELSE IF v <= 0 THEN 0 ELSE v
             /\ g'.power.dir = IF v >= 100 * 1000 THEN -1
                               ELSE IF v <= 0 THEN 1 ELSE g.power.dir
             /\ g'.power.speed = g.power.speed
    ELSE IF op' = "startCharging"
    THEN g'.power = [g.power EXCEPT !.value = 0, !.dir = 1]
    ELSE g'.power = g.power

\* C22 as stated: the meter value is within [0, 100] in every reachable state, and it
\* is changed only by a tick that starts in state charging and by an effective
\* startCharging; every other step leaves value and direction unchanged.
C22_MeterFrozen ==
    /\ [](g.power.value >= 0 /\ g.power.value <= 100 * 1000)
    /\ [][MeterStep]_vars

\* C22, amended: as C22_MeterFrozen, but initGame sets the meter to value 50, rising.
C22_Meter ==
    /\ [](g.power.value >= 0 /\ g.power.value <= 100 * 1000)
    /\ [][ IF op' = "initGame"
           THEN g'.power = [g.power EXCEPT !.value = 50 * 1000, !.dir = 1]
           ELSE MeterStep ]_vars

\* the meter has reached 100 in a tick and turned round
C22_Witness ==
    /\ op = "loop"
    /\ g.state = "charging"
    /\ g.power.value = 100 * 1000
    /\ g.power.dir = -1

\* C23: releaseJump in state charging with the meter at 99 or more adds exactly 5 to
\* g.xp and sets g.perfectFlash to 30; below 99 it leaves both unchanged.  In both
\* cases the egg jumps: state jumping, detached, vy = -JumpVel.
C23_Perfect ==
    [][ op' = "releaseJump" /\ g.state = "charging" =>
          /\ IF g.power.value >= 99 * 1000
             THEN g'.xp = g.xp + 5 * 1000 /\ g'.perfectFlash = 30 * 1000
             ELSE g'.xp = g.xp /\ g'.perfectFlash = g.perfectFlash
          /\ g'.state = "jumping"
          /\ g'.egg.onPlatform = NoPlatform
          /\ g'.egg.vy = -JumpVel(g.power.value, g.stageIdx) ]_vars

\* a perfect release has just been rewarded
C23_Witness ==
    /\ op = "releaseJump"
    /\ g.state = "jumping"
    /\ g.power.value >= 99 * 1000
    /\ g.perfectFlash = 30 * 1000
    /\ g.xp >= 5 * 1000

\* what a step other than a reset does to the tier index: it falls only in a tick that
\* starts with the egg idle or charging and reaches the decay block with the egg still
\* grounded and g.xp > 0; it rises only in a tick in which the egg lands
TierStep ==
    /\ g'.stageIdx < g.stageIdx =>
          /\ op' = "loop"
          /\ g.state = "idle" \/ g.state = "charging"
          /\ ev'.expired = 0 /\ ~ev'.hit
          /\ g.xp > 0
    /\ g'.stageIdx > g.stageIdx =>
          /\ op' = "loop"
          /\ ev'.landed # 0

\* C24 as stated: the tier index decreases only in a tick whose decay block runs with
\* the egg grounded and increases only in a tick with a landing; no command changes
\* it, and no tick with the egg airborne and no landing.
C24_TierMoves == [][TierStep]_vars

\* C24, amended: as C24_TierMoves, but initGame sets the tier index to 0.
C24_Tier == [][IF op' = "initGame" THEN g'.stageIdx = 0 ELSE TierStep]_vars

\* a perfect release has lifted g.xp over the threshold of the next tier and the tier
\* index has stayed behind
C24_Witness ==
    /\ op = "releaseJump"
    /\ g.state = "jumping"
    /\ getStage(Floor(g.xp)) > g.stageIdx

\* C25: no bird exists while the meters climbed, max(0, floor((540 - heightReached) /
\* 12)), are below 40; a bird is created only in a tick in which the accumulated
\* g.birdTimer exceeds the interval of the height band, and that tick sets the timer
\* back to 0; any other tick adds dt to the timer and creates no bird.
C25_Spawn ==
    /\ [](HeightM(g.heightReached) < 40 => g.birds = <<>>)
    /\ [][ op' = "loop" /\ ev'.from # "gameover" =>
             LET height == HeightM(g.heightReached)
                 timer == g.birdTimer + ev'.dt
                 due == /\ height >= 40
                        /\ timer > 1000 * (IF height < 80 THEN 500
                                           ELSE IF height < 130 THEN 350
                                           ELSE IF height < 200 THEN 250
                                           ELSE IF height < 300 THEN 170 ELSE 120)
             IN  /\ ev'.spawned <=> due
                 /\ g'.birdTimer = IF ev'.spawned THEN 0 ELSE timer
                 /\ ~ev'.spawned => Len(g'.birds) <= Len(g.birds) ]_vars

\* C26: every platform of the column lies inside the side margins, x >= 8 and
\* x + w <= W - 8, in every reachable state; in a tick a platform with speed 0 keeps
\* its x, and a moving one advances by speed * dt, is set onto the margin it reaches
\* and leaves there with the same speed pointing back into the field; no command
\* moves a platform.
C26_Margins ==
    /\ [](\A i \in 1..Len(g.platforms) :
             /\ g.platforms[i].x >= 8 * 1000
             /\ g.platforms[i].x + g.platforms[i].w <= W - 8 * 1000)
    /\ [][ \A id \in Ids(g) \cap Ids(g') :
             LET p == PlatformOf(g, id)
                 q == PlatformOf(g', id)
                 x == p.x + Mul(p.speed, ev'.dt)
             IN  IF op' = "loop" /\ ev'.from # "gameover" /\ p.speed # 0
                 THEN IF x <= 8 * 1000
                      THEN q.x = 8 * 1000 /\ q.speed = Abs(p.speed)
                      ELSE IF x + p.w >= W - 8 * 1000
                      THEN q.x = W - 8 * 1000 - p.w /\ q.speed = -Abs(p.speed)
                      ELSE q.x = x /\ q.speed = p.speed
                 ELSE q.x = p.x /\ q.speed = p.speed ]_vars

\* a tick has set a platform onto the right margin and turned it round
C26_Witness ==
    /\ op = "loop"
    /\ \E i \in 1..Len(g.platforms) :
          /\ g.platforms[i].x + g.platforms[i].w = W - 8 * 1000
          /\ g.platforms[i].speed < 0

\* C27: whenever the game state is idle or charging, egg.onPlatform is a platform object
\* of the column, is not marked removing and has screen y (y - camera.y) <= H; and no
\* tick takes the scroll-off branch of the grounded block.
C27_Supported ==
    /\ ~ev.scrolledOff
    /\ g.state = "idle" \/ g.state = "charging" =>
          /\ g.egg.onPlatform.id \in Ids(g)
          /\ g.egg.onPlatform = PlatformOf(g, g.egg.onPlatform.id)
          /\ ~g.egg.onPlatform.removing
          /\ g.egg.onPlatform.y - g.camera.y <= H

\* the egg rests on a platform above the seed after the camera has scrolled and the
\* column has been culled from below
C27_Witness ==
    /\ op = "loop"
    /\ g.state = "idle" \/ g.state = "charging"
    /\ g.camera.y < 0
    /\ g.egg.onPlatform.y < 540 * 1000
    /\ \A i \in 1..Len(g.platforms) : g.platforms[i].y < 540 * 1000

\* C28: whenever the game state is idle or charging, g.stageIdx is the highest index
\* of STAGES whose threshold is at most floor(g.xp).
C28_TierLookup ==
    g.state = "idle" \/ g.state = "charging" =>
        /\ g.stageIdx \in 0..(Len(STAGES) - 1)
        /\ STAGES[g.stageIdx + 1] <= Floor(g.xp)
        /\ \A i \in 0..(Len(STAGES) - 1) : STAGES[i + 1] <= Floor(g.xp) => i <= g.stageIdx

\* a landing that awards no experience has promoted the egg: the tier index catches up
\* with the experience of a perfect release
C28_Witness ==
    /\ op = "loop"
    /\ ev.landed # 0
    /\ ~ev.gainedXp
    /\ g.state = "idle"
    /\ g.stageIdx > g.prevStageIdx

\* C29: a platform of the column that is marked removing stays marked as long as it is
\* in the column, and a landing selects a platform of the column that was not marked
\* before the tick and has not expired in it: the egg never rests on a platform
\* marked removing.
C29_Removing ==
    [][ /\ \A id \in Ids(g) \cap Ids(g') :
              PlatformOf(g, id).removing => PlatformOf(g', id).removing
        /\ op' = "loop" /\ ev'.landed # 0 =>
              /\ ev'.landed \in Ids(g)
              /\ ~PlatformOf(g, ev'.landed).removing
              /\ ev'.landed # ev'.expired
              /\ g'.egg.onPlatform.id = ev'.landed
              /\ ~g'.egg.onPlatform.removing ]_vars

\* a timed platform has expired under the egg, is still in the column, marked, and the
\* egg has fallen through it
C29_Witness ==
    /\ op = "loop"
    /\ ev.expired # 0
    /\ ev.landed = 0
    /\ g.state = "jumping"
    /\ ev.expired \in Ids(g)
    /\ PlatformOf(g, ev.expired).removing

\* C30: while frames keep coming, every state with the egg in the air is followed by a
\* state in which it has landed (idle) or the game is over.
C30_Transient == (g.state = "jumping") ~> (g.state = "idle" \/ g.state = "gameover")

\* the egg is in the air and a bird has hit it there
C30_Witness ==
    /\ op = "loop"
    /\ g.state = "jumping"
    /\ ev.from = "jumping"
    /\ ev.hit

\* C31: in every reachable state g.score is max(0, floor((540 - highestPlatformY) / 12)):
\* the landings and initGame keep the score and the height of the highest platform
\* landed on in step.
C31_ScoreOfHighest ==
    g.score = Max(0, (540 * 1000 - g.highestPlatformY) \div (12 * 1000))

\* the egg has landed below the highest platform of the run, and the score is still
\* that of the highest one
C31_Witness ==
    /\ op = "loop"
    /\ ev.landed # 0
    /\ ~ev.gainedXp
    /\ g.egg.onPlatform.y > g.highestPlatformY
    /\ g.score > 0
====
